---------------------------- MODULE Spec2Model ----------------------------
(***************************************************************************)
(* The commit-graph file loader of git-commitgraph: File::at, that is      *)
(* TryFrom<&Path> for File (src/git-commitgraph/src/file/init.rs).         *)
(*                                                                         *)
(* The mapped buffer is modelled as its bytes.  Rust indexes from 0, TLA+  *)
(* sequences from 1: At(d, i) is data[i], Slice(d, a, b) is data[a..b].    *)
(***************************************************************************)
EXTENDS Integers, Sequences, FiniteSets, TLC

(***************************************************************************)
(* Bounds of the explored inputs.                                          *)
(***************************************************************************)
\* commits per file: 0..MaxCommits
MaxCommits == 3
\* hashes in a BASE chunk and the header's base_graph_count: 0..MaxBase
MaxBase == 1
\* generation numbers written into CDAT records: 1..MaxGen
MaxGen == 2
\* chunks of an unrecognized id inserted into a directory: 0..MaxUnknown
MaxUnknown == 1

(***************************************************************************)
(* Format constants.                                                       *)
(***************************************************************************)
CHUNK_LOOKUP_SIZE == 12
HEADER_LEN == 8
MIN_CHUNKS == 3
MIN_FILE_SIZE == HEADER_LEN + ((MIN_CHUNKS + 1) * CHUNK_LOOKUP_SIZE)
SHA1_SIZE == 20
OID_LOOKUP_ENTRY_SIZE == SHA1_SIZE
COMMIT_DATA_ENTRY_SIZE == 36
FAN_LEN == 256
\* b"CGPH"
SIGNATURE == <<67, 71, 80, 72>>
\* b"BASE", b"CDAT", b"EDGE", b"OIDF", b"OIDL", [0u8; 4]
BASE_GRAPHS_LIST_CHUNK_ID == <<66, 65, 83, 69>>
COMMIT_DATA_CHUNK_ID == <<67, 68, 65, 84>>
EXTENDED_EDGES_LIST_CHUNK_ID == <<69, 68, 71, 69>>
OID_FAN_CHUNK_ID == <<79, 73, 68, 70>>
OID_LOOKUP_CHUNK_ID == <<79, 73, 68, 76>>
SENTINEL_CHUNK_ID == <<0, 0, 0, 0>>

(***************************************************************************)
(* Bytes.                                                                  *)
(***************************************************************************)
At(d, i) == d[i + 1]
Slice(d, a, b) == SubSeq(d, a + 1, b)

\* BigEndian::read_u32 / read_u64 of a slice of 4 / 8 bytes.  The u64 offsets
\* go through try_into::<usize>(), which cannot fail where usize has 64 bits.
\* (value[k] is the number the first k bytes spell)
ReadBE(b) ==
    LET value[k \in 0 .. Len(b)] == IF k = 0 THEN 0 ELSE value[k - 1] * 256 + b[k]
    IN  value[Len(b)]

ReadU32(b) == ReadBE(SubSeq(b, 1, 4))
ReadU64(b) == ReadBE(SubSeq(b, 1, 8))

\* Option<T>: None is the empty sequence, Some(x) the one-element sequence
None == <<>>
Some(x) == <<x>>
IsSome(o) == o # None

\* `x as u32`.  Every count of the explored files is far below 2^32 (and TLC's
\* integers end at 2^31 - 1), so the cast never truncates here.
AsU32(x) == x

(***************************************************************************)
(* Error: the variants of the quick_error! enum, as records of one shape.  *)
(* result.kind = "" while File::at is running, "Ok" when it returned a     *)
(* File, "Panic" when an index was out of range.                           *)
(***************************************************************************)
Res(kind, id, count, id2, count2, msg) ==
    [kind |-> kind, id |-> id, count |-> count, id2 |-> id2, count2 |-> count2, msg |-> msg]

Pending == Res("", <<>>, 0, <<>>, 0, "")
Ok == Res("Ok", <<>>, 0, <<>>, 0, "")
Panic(msg) == Res("Panic", <<>>, 0, <<>>, 0, msg)
Io == Res("Io", <<>>, 0, <<>>, 0, "Could not open commit-graph file")
BaseGraphMismatch(from_header, from_chunk) ==
    Res("BaseGraphMismatch", <<>>, from_header, <<>>, from_chunk, "")
CommitCountMismatch(chunk1_id, chunk1_commits, chunk2_id, chunk2_commits) ==
    Res("CommitCountMismatch", chunk1_id, chunk1_commits, chunk2_id, chunk2_commits, "")
Corrupt(msg) == Res("Corrupt", <<>>, 0, <<>>, 0, msg)
DuplicateChunk(id) == Res("DuplicateChunk", id, 0, <<>>, 0, "")
InvalidChunkSize(id, msg) == Res("InvalidChunkSize", id, 0, <<>>, 0, msg)
MissingChunk(id) == Res("MissingChunk", id, 0, <<>>, 0, "")
UnsupportedHashVersion(version) == Res("UnsupportedHashVersion", <<>>, version, <<>>, 0, "")
UnsupportedVersion(version) == Res("UnsupportedVersion", <<>>, version, <<>>, 0, "")

(***************************************************************************)
(* The locals of try_from, as one record s; each step of try_from is an    *)
(* operator from the buffer and the locals to the locals after the step.   *)
(***************************************************************************)
Return(s, r) == [s EXCEPT !.pc = "done", !.result = r]

\* slice indexing data[a..b] panics unless a <= b <= data.len()
InRange(d, a, b) == a <= b /\ b <= Len(d)

InitLocals ==
    [pc |-> "open", ofs |-> 0, data_size |-> 0, chunk_count |-> 0, base_graph_count |-> 0,
     chunk_lookup_end |-> 0, base_graphs_list_offset |-> None, commit_data_offset |-> None,
     commit_data_count |-> 0, extra_edges_list_range |-> None, fan_offset |-> None,
     oid_lookup_offset |-> None, oid_lookup_count |-> 0, chunk_id |-> <<>>,
     chunk_offset |-> 0, iter |-> 0, fan |-> <<>>, result |-> Pending]

\* the file is smaller than the smallest possible commit-graph file
TooSmall_Unchecked(data_size) == FALSE
TooSmall(data_size) == data_size < MIN_FILE_SIZE

\* lines 88-94: open the buffer, reject a file below the minimum size
OpenStep(d, readable, s) ==
    IF ~readable THEN Return(s, Io)
    ELSE IF TooSmall(Len(d))
    THEN Return([s EXCEPT !.data_size = Len(d)],
                Corrupt("Commit-graph file too small even for an empty graph"))
    ELSE [s EXCEPT !.data_size = Len(d), !.pc = "header"]

SignatureOk(d, ofs) == Slice(d, ofs, ofs + Len(SIGNATURE)) = SIGNATURE
VersionOk_AtMost(x) == x <= 1
VersionOk(x) == x = 1
HashVersionOk(x) == x = 1
ChunkLookupEnd(ofs, chunk_count) == ofs + ((chunk_count + 1) * CHUNK_LOOKUP_SIZE)

\* lines 96-134: signature, versions, chunk_count, base_graph_count, directory end
HeaderStep(d, s) ==
    IF ~InRange(d, 0, HEADER_LEN) THEN Return(s, Panic("index out of range"))
    ELSE IF ~SignatureOk(d, 0)
    THEN Return(s, Corrupt("Commit-graph file does not start with expected signature"))
    ELSE IF ~VersionOk(At(d, 4)) THEN Return([s EXCEPT !.ofs = 4], UnsupportedVersion(At(d, 4)))
    ELSE IF ~HashVersionOk(At(d, 5))
    THEN Return([s EXCEPT !.ofs = 5], UnsupportedHashVersion(At(d, 5)))
    ELSE LET chunk_count == At(d, 6)
             base_graph_count == At(d, 7)
             chunk_lookup_end == ChunkLookupEnd(8, chunk_count)
             t == [s EXCEPT !.ofs = 8, !.chunk_count = chunk_count,
                            !.base_graph_count = base_graph_count,
                            !.chunk_lookup_end = chunk_lookup_end]
         IN  IF chunk_lookup_end > s.data_size
             THEN Return(t, Corrupt("Commit-graph file is too small to hold chunks"))
             ELSE [t EXCEPT !.pc = "first"]

FirstOffsetOk(chunk_offset, chunk_lookup_end) == ~(chunk_offset < chunk_lookup_end)

\* lines 136-156: the first directory entry
FirstStep(d, s) ==
    IF ~InRange(d, s.ofs, s.ofs + CHUNK_LOOKUP_SIZE) THEN Return(s, Panic("index out of range"))
    ELSE LET chunk_id == Slice(d, s.ofs, s.ofs + 4)
             chunk_offset == ReadU64(Slice(d, s.ofs + 4, s.ofs + 12))
             t == [s EXCEPT !.chunk_id = chunk_id, !.chunk_offset = chunk_offset]
         IN  IF ~FirstOffsetOk(chunk_offset, s.chunk_lookup_end)
             THEN Return([t EXCEPT !.ofs = s.ofs + 4],
                         Corrupt("Commit-graph chunk 0 has invalid offset"))
             ELSE [t EXCEPT !.ofs = s.ofs + 12, !.pc = "walk"]

\* next_chunk_offset.checked_sub(chunk_offset) is None
SizeIsNegative(next_chunk_offset, chunk_offset) == next_chunk_offset < chunk_offset
\* line 170
BeyondEndOfFile(next_chunk_offset, data_size) == next_chunk_offset >= data_size
\* lines 182, 198, 225, 237: the size constraint of each recognized chunk
OidFanSizeOk_AtLeast(chunk_size) == chunk_size >= 4 * FAN_LEN
BaseSizeOk(chunk_size) == chunk_size % SHA1_SIZE = 0
CommitDataSizeOk(chunk_size) == chunk_size % COMMIT_DATA_ENTRY_SIZE = 0
OidFanSizeOk(chunk_size) == chunk_size = 4 * FAN_LEN
OidLookupSizeOk(chunk_size) == chunk_size % OID_LOOKUP_ENTRY_SIZE = 0
\* line 189
BaseCountOk_AtLeast(chunk_base_graph_count, base_graph_count) ==
    chunk_base_graph_count >= AsU32(base_graph_count)
BaseCountOk(chunk_base_graph_count, base_graph_count) ==
    chunk_base_graph_count = AsU32(base_graph_count)
\* lines 179, 195, 211, 221, 234
IsDuplicate_Unchecked(seen) == FALSE
IsDuplicate(seen) == IsSome(seen)

\* line 258: `_ => {}`
SkipUnknown_Rejected(s) == Return(s, Corrupt("unknown chunk id"))
SkipUnknown(s) == s

\* lines 177-259: match chunk_id { ... }
Dispatch(s, chunk_size, next_chunk_offset) ==
    CASE s.chunk_id = BASE_GRAPHS_LIST_CHUNK_ID ->
           IF IsDuplicate(s.base_graphs_list_offset) THEN Return(s, DuplicateChunk(s.chunk_id))
           ELSE IF ~BaseSizeOk(chunk_size)
           THEN Return(s, InvalidChunkSize(s.chunk_id, "chunk size is not a multiple of 20"))
           ELSE IF ~BaseCountOk(AsU32(chunk_size \div SHA1_SIZE), s.base_graph_count)
           THEN Return(s, BaseGraphMismatch(s.base_graph_count, AsU32(chunk_size \div SHA1_SIZE)))
           ELSE [s EXCEPT !.base_graphs_list_offset = Some(s.chunk_offset)]
      [] s.chunk_id = COMMIT_DATA_CHUNK_ID ->
           IF IsDuplicate(s.commit_data_offset) THEN Return(s, DuplicateChunk(s.chunk_id))
           ELSE IF ~CommitDataSizeOk(chunk_size)
           THEN Return(s, InvalidChunkSize(s.chunk_id, "chunk size is not a multiple of 36"))
           ELSE [s EXCEPT !.commit_data_offset = Some(s.chunk_offset),
                          !.commit_data_count = AsU32(chunk_size \div COMMIT_DATA_ENTRY_SIZE)]
      [] s.chunk_id = EXTENDED_EDGES_LIST_CHUNK_ID ->
           IF IsDuplicate(s.extra_edges_list_range) THEN Return(s, DuplicateChunk(s.chunk_id))
           ELSE [s EXCEPT !.extra_edges_list_range =
                              Some([start |-> s.chunk_offset, end |-> next_chunk_offset])]
      [] s.chunk_id = OID_FAN_CHUNK_ID ->
           IF IsDuplicate(s.fan_offset) THEN Return(s, DuplicateChunk(s.chunk_id))
           ELSE IF ~OidFanSizeOk(chunk_size)
           THEN Return(s, InvalidChunkSize(s.chunk_id, "expected chunk length 1024"))
           ELSE [s EXCEPT !.fan_offset = Some(s.chunk_offset)]
      [] s.chunk_id = OID_LOOKUP_CHUNK_ID ->
           IF IsDuplicate(s.oid_lookup_offset) THEN Return(s, DuplicateChunk(s.chunk_id))
           ELSE IF ~OidLookupSizeOk(chunk_size)
           THEN Return(s, InvalidChunkSize(s.chunk_id, "chunk size is not a multiple of 20"))
           ELSE [s EXCEPT !.oid_lookup_offset = Some(s.chunk_offset),
                          !.oid_lookup_count = AsU32(chunk_size \div OID_LOOKUP_ENTRY_SIZE)]
      [] OTHER -> SkipUnknown(s)

\* line 158: `for _ in 0..chunk_count` has another iteration to run
InLoop_Inclusive(iter, chunk_count) == iter <= chunk_count
InLoop(iter, chunk_count) == iter < chunk_count

\* lines 158-263: one iteration of `for _ in 0..chunk_count`
WalkStep(d, s) ==
    IF ~InRange(d, s.ofs, s.ofs + CHUNK_LOOKUP_SIZE) THEN Return(s, Panic("index out of range"))
    ELSE LET next_chunk_id == Slice(d, s.ofs, s.ofs + 4)
             next_chunk_offset == ReadU64(Slice(d, s.ofs + 4, s.ofs + 12))
             t == [s EXCEPT !.ofs = s.ofs + 12]
         IN  IF SizeIsNegative(next_chunk_offset, s.chunk_offset)
             THEN Return(t, InvalidChunkSize(s.chunk_id, "size is negative"))
             ELSE IF BeyondEndOfFile(next_chunk_offset, s.data_size)
             THEN Return(t, InvalidChunkSize(s.chunk_id, "chunk extends beyond end of file"))
             ELSE LET u == Dispatch(t, next_chunk_offset - s.chunk_offset, next_chunk_offset)
                  IN  IF u.pc = "done" THEN u
                      ELSE [u EXCEPT !.chunk_id = next_chunk_id,
                                     !.chunk_offset = next_chunk_offset,
                                     !.iter = s.iter + 1]

\* lines 264-269: after the loop, the last entry read must be the sentinel
SentinelStep(s) ==
    IF s.chunk_id # SENTINEL_CHUNK_ID
    THEN Return(s, Corrupt("Commit-graph file has invalid last chunk ID"))
    ELSE [s EXCEPT !.pc = "post"]

\* lines 309-315: read_fan.  d.chunks(4) yields a shorter last chunk when the
\* slice's length is no multiple of 4, and read_u32 panics on it (read_fan_panics).
\* The result's entry k + 1 is fan[k].
read_fan_panics(d) == \E k \in 0 .. FAN_LEN - 1 : 4 * k < Len(d) /\ Len(d) < 4 * k + 4

read_fan(d) ==
    [k \in 1 .. FAN_LEN |-> IF 4 * k <= Len(d) THEN ReadU32(Slice(d, 4 * k - 4, 4 * k)) ELSE 0]

\* lines 279, 287
CountsAgree_AtMost(count, fan255) == count <= fan255
CountsAgree(count, fan255) == ~(count # fan255)
\* line 274
BaseMissing_Unchecked(base_graph_count, base_graphs_list_offset) == FALSE
BaseMissing(base_graph_count, base_graphs_list_offset) ==
    base_graph_count > 0 /\ base_graphs_list_offset = None

\* lines 271-304: required chunks, the fan table, the commit counts
PostStep(d, s) ==
    IF s.fan_offset = None THEN Return(s, MissingChunk(OID_FAN_CHUNK_ID))
    ELSE IF s.oid_lookup_offset = None THEN Return(s, MissingChunk(OID_LOOKUP_CHUNK_ID))
    ELSE IF s.commit_data_offset = None THEN Return(s, MissingChunk(COMMIT_DATA_CHUNK_ID))
    ELSE IF BaseMissing(s.base_graph_count, s.base_graphs_list_offset)
    THEN Return(s, MissingChunk(BASE_GRAPHS_LIST_CHUNK_ID))
    ELSE IF ~InRange(d, s.fan_offset[1], Len(d)) THEN Return(s, Panic("index out of range"))
    ELSE IF read_fan_panics(Slice(d, s.fan_offset[1], Len(d)))
    THEN Return(s, Panic("read_u32 of a short slice"))
    ELSE LET fan == read_fan(Slice(d, s.fan_offset[1], Len(d)))
         IN  IF ~CountsAgree(s.oid_lookup_count, fan[FAN_LEN])
             THEN Return(s, CommitCountMismatch(OID_FAN_CHUNK_ID, fan[FAN_LEN],
                                                OID_LOOKUP_CHUNK_ID, s.oid_lookup_count))
             ELSE IF ~CountsAgree(s.commit_data_count, fan[FAN_LEN])
             THEN Return(s, CommitCountMismatch(OID_FAN_CHUNK_ID, fan[FAN_LEN],
                                                COMMIT_DATA_CHUNK_ID, s.commit_data_count))
             ELSE Return([s EXCEPT !.fan = fan], Ok)

\* one step of try_from, by the position reached
Step(d, readable, s) ==
    CASE s.pc = "open" -> OpenStep(d, readable, s)
      [] s.pc = "header" -> HeaderStep(d, s)
      [] s.pc = "first" -> FirstStep(d, s)
      [] s.pc = "walk" /\ InLoop(s.iter, s.chunk_count) -> WalkStep(d, s)
      [] s.pc = "walk" /\ ~InLoop(s.iter, s.chunk_count) -> SentinelStep(s)
      [] s.pc = "post" -> PostStep(d, s)
      [] OTHER -> s

\* File::at(path) as a function: try_from run to its return
RECURSIVE Run(_, _, _)
Run(d, readable, s) == IF s.pc = "done" THEN s ELSE Run(d, readable, Step(d, readable, s))

at(d) == Run(d, TRUE, InitLocals)

(***************************************************************************)
(* Input files.  A file is described by a record f and written out byte by *)
(* byte by FileBytes(f): header, chunk directory, chunk bodies, trailer.   *)
(***************************************************************************)
\* an id the loader does not recognize: b"XTRA"
UNKNOWN_CHUNK_ID == <<88, 84, 82, 65>>
\* the edge word of an absent parent: 0x7000_0000
NO_PARENT == 1879048192

Zeros(n) == [i \in 1 .. n |-> 0]
U32BE(n) == <<(n \div 16777216) % 256, (n \div 65536) % 256, (n \div 256) % 256, n % 256>>
U64BE(n) == <<0, 0, 0, 0>> \o U32BE(n)
\* content cut or zero-padded to size bytes
Fit(content, size) ==
    IF Len(content) >= size THEN SubSeq(content, 1, size)
    ELSE content \o Zeros(size - Len(content))

RECURSIVE Concat(_)
Concat(ss) == IF ss = <<>> THEN <<>> ELSE Head(ss) \o Concat(Tail(ss))

RECURSIVE Sum(_)
Sum(ns) == IF ns = <<>> THEN 0 ELSE Head(ns) + Sum(Tail(ns))

\* OIDF: fan.low for the first bytes 0..254, fan.last for 255
FanBody(fan) ==
    [i \in 1 .. 4 * FAN_LEN |->
        U32BE(IF (i - 1) \div 4 < FAN_LEN - 1 THEN fan.low ELSE fan.last)[((i - 1) % 4) + 1]]
\* OIDL: n sorted hashes, all of first byte 255
OidBody(n) == Concat([j \in 1 .. n |-> <<255>> \o Zeros(SHA1_SIZE - 2) \o <<j>>])
\* CDAT: root tree, parent1, parent2, generation (high 30 bits) and timestamp
CommitBody(commits) ==
    Concat([j \in 1 .. Len(commits) |->
              Zeros(SHA1_SIZE) \o U32BE(commits[j].p1) \o U32BE(commits[j].p2)
                \o U32BE(commits[j].gen * 4) \o U32BE(0)])

ChunkBody(f, j) ==
    Fit(CASE f.ids[j] = OID_FAN_CHUNK_ID -> FanBody(f.fan)
          [] f.ids[j] = OID_LOOKUP_CHUNK_ID -> OidBody(Len(f.commits))
          [] f.ids[j] = COMMIT_DATA_CHUNK_ID -> CommitBody(f.commits)
          [] OTHER -> <<>>,
        f.sizes[j])

\* where chunk k starts (k = Len(f.ids) + 1: where the last chunk ends)
ChunkStart(f, k) ==
    HEADER_LEN + (Len(f.ids) + 1) * CHUNK_LOOKUP_SIZE + Sum(SubSeq(f.sizes, 1, k - 1))
\* the offset the directory gives for entry k
EntryOffset(f, k) == ChunkStart(f, k) + (IF k = f.skew.at THEN f.skew.by ELSE 0)

FileBytes(f) ==
    Fit(f.sig \o <<f.version, f.hash_version, f.chunk_count, f.base_graph_count>>
          \o Concat([k \in 1 .. Len(f.ids) |-> f.ids[k] \o U64BE(EntryOffset(f, k))])
          \o f.last_id \o U64BE(EntryOffset(f, Len(f.ids) + 1))
          \o Concat([j \in 1 .. Len(f.ids) |-> ChunkBody(f, j)]),
        ChunkStart(f, Len(f.ids) + 1) + f.trailer)

(***************************************************************************)
(* The families of files explored.                                         *)
(***************************************************************************)
\* the size a writer gives a chunk in a file of n commits and b base graphs
NaturalSize(id, n, b) ==
    CASE id = OID_FAN_CHUNK_ID -> 4 * FAN_LEN
      [] id = OID_LOOKUP_CHUNK_ID -> n * OID_LOOKUP_ENTRY_SIZE
      [] id = COMMIT_DATA_CHUNK_ID -> n * COMMIT_DATA_ENTRY_SIZE
      [] id = BASE_GRAPHS_LIST_CHUNK_ID -> b * SHA1_SIZE
      [] OTHER -> 8

\* the entry size of a chunk (4: a fan word, an edge word)
EntrySize(id) ==
    CASE id = OID_LOOKUP_CHUNK_ID -> OID_LOOKUP_ENTRY_SIZE
      [] id = COMMIT_DATA_CHUNK_ID -> COMMIT_DATA_ENTRY_SIZE
      [] id = BASE_GRAPHS_LIST_CHUNK_ID -> SHA1_SIZE
      [] OTHER -> 4

\* the size of a chunk after resize w: 1 adds a byte, 2 adds one entry, 3 takes
\* one entry away, 4 empties the chunk
Resized(id, size, w) ==
    CASE w = 1 -> size + 1
      [] w = 2 -> size + EntrySize(id)
      [] w = 3 /\ size >= EntrySize(id) -> size - EntrySize(id)
      [] OTHER -> 0

\* n root commits of generation 1
Roots(n) == [j \in 1 .. n |-> [p1 |-> NO_PARENT, p2 |-> NO_PARENT, gen |-> 1]]

NoSkew == [at |-> 0, by |-> 0]

\* a well-formed file of the chunks ids, n commits and b base graphs
WellFormed(ids, n, b) ==
    [sig |-> SIGNATURE, version |-> 1, hash_version |-> 1, chunk_count |-> Len(ids),
     base_graph_count |-> b, ids |-> ids,
     sizes |-> [k \in 1 .. Len(ids) |-> NaturalSize(ids[k], n, b)],
     skew |-> NoSkew, last_id |-> SENTINEL_CHUNK_ID, trailer |-> SHA1_SIZE,
     fan |-> [low |-> 0, last |-> n], commits |-> Roots(n)]

Layouts ==
    LET F == OID_FAN_CHUNK_ID
        L == OID_LOOKUP_CHUNK_ID
        C == COMMIT_DATA_CHUNK_ID
        E == EXTENDED_EDGES_LIST_CHUNK_ID
        B == BASE_GRAPHS_LIST_CHUNK_ID
    IN  {<<F, L, C>>, <<F, L, C, E>>, <<F, L, C, B>>, <<F, L, C, E, B>>,
         <<C, L, F>>, <<B, E, C, L, F>>}

Remove(q, k) == SubSeq(q, 1, k - 1) \o SubSeq(q, k + 1, Len(q))
Insert(q, k, xs) == SubSeq(q, 1, k - 1) \o xs \o SubSeq(q, k, Len(q))

\* one edit of the chunk list: a chunk dropped, repeated or resized
Edits(ids) ==
    {[op |-> "none", k |-> 0, w |-> 0]}
      \cup {[op |-> o, k |-> k, w |-> 0] : o \in {"drop", "dup"}, k \in 1 .. Len(ids)}
      \cup {[op |-> "resize", k |-> k, w |-> w] : k \in 1 .. Len(ids), w \in 1 .. 4}

Edited(f, e) ==
    CASE e.op = "drop" ->
           [f EXCEPT !.ids = Remove(f.ids, e.k), !.sizes = Remove(f.sizes, e.k),
                     !.chunk_count = Len(f.ids) - 1]
      [] e.op = "dup" ->
           [f EXCEPT !.ids = Append(f.ids, f.ids[e.k]), !.sizes = Append(f.sizes, f.sizes[e.k]),
                     !.chunk_count = Len(f.ids) + 1]
      [] e.op = "resize" ->
           [f EXCEPT !.sizes[e.k] = Resized(f.ids[e.k], f.sizes[e.k], e.w)]
      [] OTHER -> f

\* u chunks of an unrecognized id put before chunk p
WithUnknown(f, u, p) ==
    [f EXCEPT !.ids = Insert(f.ids, p, [j \in 1 .. u |-> UNKNOWN_CHUNK_ID]),
              !.sizes = Insert(f.sizes, p, [j \in 1 .. u |-> 8]),
              !.chunk_count = Len(f.ids) + u]

\* the file without its chunks of unrecognized ids
RECURSIVE StripUnknown(_)
StripUnknown(f) ==
    IF \E k \in 1 .. Len(f.ids) : f.ids[k] = UNKNOWN_CHUNK_ID
    THEN LET k == CHOOSE k \in 1 .. Len(f.ids) : f.ids[k] = UNKNOWN_CHUNK_ID
         IN  StripUnknown([f EXCEPT !.ids = Remove(f.ids, k), !.sizes = Remove(f.sizes, k),
                                    !.chunk_count = f.chunk_count - 1])
    ELSE f

\* where unknown chunks are put: at the front, after the first chunk, at the back
Places(f) == {1, 2, Len(f.ids) + 1}

\* chunk lists: a layout, edited once, with unknown chunks inserted
StructureFiles ==
    UNION {UNION {{f} \cup {WithUnknown(f, u, p) : u \in 1 .. MaxUnknown, p \in Places(f)} :
                    f \in {Edited(WellFormed(ids, n, b), e) :
                             n \in 0 .. MaxCommits, b \in 0 .. MaxBase, e \in Edits(ids)}} :
             ids \in Layouts}

\* the layouts the header, offset and content families vary
Plain == <<OID_FAN_CHUNK_ID, OID_LOOKUP_CHUNK_ID, COMMIT_DATA_CHUNK_ID>>
Full ==
    <<OID_FAN_CHUNK_ID, OID_LOOKUP_CHUNK_ID, COMMIT_DATA_CHUNK_ID,
      EXTENDED_EDGES_LIST_CHUNK_ID, BASE_GRAPHS_LIST_CHUNK_ID>>

\* header bytes: signature, the two versions, a chunk_count other than the
\* number of entries written
WithHeader(f, sig, v, h, c) ==
    [f EXCEPT !.sig = sig, !.version = v, !.hash_version = h, !.chunk_count = c]

HeaderFiles ==
    {WithHeader(WellFormed(Plain, n, 0), sig, v, h, Len(Plain) + c) :
        n \in {0, MaxCommits}, sig \in {SIGNATURE, <<88, 88, 88, 88>>},
        v \in 0 .. 2, h \in 0 .. 2, c \in {0, 1}}

\* directory offsets: one entry's offset moved, the bytes after the last chunk,
\* the id of the last entry
WithOffsets(f, sk, t, l) == [f EXCEPT !.skew = sk, !.trailer = t, !.last_id = l]

OffsetFiles ==
    UNION {{WithOffsets(WellFormed(ids, n, IF ids = Full THEN MaxBase ELSE 0), sk, t, l) :
              n \in {0, MaxCommits},
              sk \in {NoSkew} \cup [at : 1 .. Len(ids) + 1, by : {-4, 4}],
              t \in {-4, 0, 1, SHA1_SIZE},
              l \in {SENTINEL_CHUNK_ID, UNKNOWN_CHUNK_ID}} :
             ids \in {Plain, Full}}

\* the parents of commit j: none, the commit before it, or the two before it
ParentChoices(j) ==
    {<<NO_PARENT, NO_PARENT>>}
      \cup (IF j >= 2 THEN {<<j - 2, NO_PARENT>>} ELSE {})
      \cup (IF j >= 3 THEN {<<j - 3, j - 2>>} ELSE {})

Commits(j) ==
    {[p1 |-> ps[1], p2 |-> ps[2], gen |-> g] : ps \in ParentChoices(j), g \in 1 .. MaxGen}

\* the lists of exactly n commit records
RECURSIVE CommitListsOf(_)
CommitListsOf(n) ==
    IF n = 0 THEN {<<>>}
    ELSE {Append(cs, c) : cs \in CommitListsOf(n - 1), c \in Commits(n)}

CommitLists == UNION {CommitListsOf(n) : n \in 0 .. MaxCommits}

\* chunk contents: the fan table and the commit records
\* fan tables: flat at 0 below the last entry, flat at the last entry's value, or
\* one above it (not monotonic)
FanTables ==
    {[low |-> IF w = 0 THEN 0 ELSE last + w - 1, last |-> last] :
        last \in 0 .. MaxCommits, w \in 0 .. 2}

WithContent(f, cs, fan) == [f EXCEPT !.commits = cs, !.fan = fan]

\* every commit list under the fan table that counts it, and every fan table
\* over root commits
ContentFiles ==
    {WithContent(WellFormed(Plain, Len(cs), 0), cs, [low |-> 0, last |-> Len(cs)]) :
        cs \in CommitLists}
      \cup {WithContent(WellFormed(Plain, n, 0), Roots(n), fan) :
              n \in 0 .. MaxCommits, fan \in FanTables}

\* files of a header and a directory of c entries only, t bytes after them
SmallFiles ==
    {[WithHeader(WellFormed(<<>>, 0, 0), sig, v, 1, c) EXCEPT !.trailer = t * CHUNK_LOOKUP_SIZE] :
        c \in 0 .. MIN_CHUNKS + 1, t \in 0 .. MIN_CHUNKS + 1, v \in {1, 2},
        sig \in {SIGNATURE, <<88, 88, 88, 88>>}}

\* a file cut to len bytes
Truncated(f, len) == [f EXCEPT !.trailer = len - ChunkStart(f, Len(f.ids) + 1)]

\* well-formed files cut inside the header, inside the chunk directory, inside
\* the fan table and inside the last chunk
TruncatedFiles ==
    {Truncated(WithHeader(WellFormed(Plain, n, 0), SIGNATURE, 1, 1, c), len) :
        n \in {0, MaxCommits}, c \in {0, Len(Plain)},
        len \in (0 .. HEADER_LEN + 1)
                 \cup {HEADER_LEN + CHUNK_LOOKUP_SIZE - 1, HEADER_LEN + CHUNK_LOOKUP_SIZE,
                       MIN_FILE_SIZE - 1, MIN_FILE_SIZE, MIN_FILE_SIZE + 1,
                       MIN_FILE_SIZE + 4 * FAN_LEN - 3, MIN_FILE_SIZE + 4 * FAN_LEN - 1,
                       MIN_FILE_SIZE + 4 * FAN_LEN + 1}}

Files ==
    StructureFiles \cup HeaderFiles \cup OffsetFiles \cup ContentFiles \cup SmallFiles
      \cup TruncatedFiles

(***************************************************************************)
(* The state: the file at the path (input describes it, data are its       *)
(* bytes, readable tells whether FileBuffer::open succeeds) and the locals *)
(* of try_from.  At pc = "done" with result.kind = "Ok" the locals are the *)
(* fields of the File returned.                                            *)
(***************************************************************************)
VARIABLES input, data, readable,
          pc, ofs, data_size, chunk_count, base_graph_count, chunk_lookup_end,
          base_graphs_list_offset, commit_data_offset, commit_data_count,
          extra_edges_list_range, fan_offset, oid_lookup_offset, oid_lookup_count,
          chunk_id, chunk_offset, iter, fan, result

path == <<input, data, readable>>
locals ==
    <<pc, ofs, data_size, chunk_count, base_graph_count, chunk_lookup_end,
      base_graphs_list_offset, commit_data_offset, commit_data_count,
      extra_edges_list_range, fan_offset, oid_lookup_offset, oid_lookup_count,
      chunk_id, chunk_offset, iter, fan, result>>
vars == <<path, locals>>

Locals ==
    [pc |-> pc, ofs |-> ofs, data_size |-> data_size, chunk_count |-> chunk_count,
     base_graph_count |-> base_graph_count, chunk_lookup_end |-> chunk_lookup_end,
     base_graphs_list_offset |-> base_graphs_list_offset,
     commit_data_offset |-> commit_data_offset, commit_data_count |-> commit_data_count,
     extra_edges_list_range |-> extra_edges_list_range, fan_offset |-> fan_offset,
     oid_lookup_offset |-> oid_lookup_offset, oid_lookup_count |-> oid_lookup_count,
     chunk_id |-> chunk_id, chunk_offset |-> chunk_offset, iter |-> iter, fan |-> fan,
     result |-> result]

\* the locals become s (the step is evaluated once, then assigned field by field)
Becomes(s) ==
    \E t \in {s} :
        /\ pc' = t.pc
        /\ ofs' = t.ofs
        /\ data_size' = t.data_size
        /\ chunk_count' = t.chunk_count
        /\ base_graph_count' = t.base_graph_count
        /\ chunk_lookup_end' = t.chunk_lookup_end
        /\ base_graphs_list_offset' = t.base_graphs_list_offset
        /\ commit_data_offset' = t.commit_data_offset
        /\ commit_data_count' = t.commit_data_count
        /\ extra_edges_list_range' = t.extra_edges_list_range
        /\ fan_offset' = t.fan_offset
        /\ oid_lookup_offset' = t.oid_lookup_offset
        /\ oid_lookup_count' = t.oid_lookup_count
        /\ chunk_id' = t.chunk_id
        /\ chunk_offset' = t.chunk_offset
        /\ iter' = t.iter
        /\ fan' = t.fan
        /\ result' = t.result

Init ==
    /\ \/ /\ readable = TRUE
          /\ input \in Files
       \/ /\ readable = FALSE
          /\ input = WellFormed(<<>>, 0, 0)
    /\ data = FileBytes(input)
    /\ pc = InitLocals.pc
    /\ ofs = InitLocals.ofs
    /\ data_size = InitLocals.data_size
    /\ chunk_count = InitLocals.chunk_count
    /\ base_graph_count = InitLocals.base_graph_count
    /\ chunk_lookup_end = InitLocals.chunk_lookup_end
    /\ base_graphs_list_offset = InitLocals.base_graphs_list_offset
    /\ commit_data_offset = InitLocals.commit_data_offset
    /\ commit_data_count = InitLocals.commit_data_count
    /\ extra_edges_list_range = InitLocals.extra_edges_list_range
    /\ fan_offset = InitLocals.fan_offset
    /\ oid_lookup_offset = InitLocals.oid_lookup_offset
    /\ oid_lookup_count = InitLocals.oid_lookup_count
    /\ chunk_id = InitLocals.chunk_id
    /\ chunk_offset = InitLocals.chunk_offset
    /\ iter = InitLocals.iter
    /\ fan = InitLocals.fan
    /\ result = InitLocals.result

Open ==
    /\ pc = "open"
    /\ Becomes(OpenStep(data, readable, Locals))
    /\ UNCHANGED path

Header ==
    /\ pc = "header"
    /\ Becomes(HeaderStep(data, Locals))
    /\ UNCHANGED path

First ==
    /\ pc = "first"
    /\ Becomes(FirstStep(data, Locals))
    /\ UNCHANGED path

WalkChunk ==
    /\ pc = "walk"
    /\ InLoop(iter, chunk_count)
    /\ Becomes(WalkStep(data, Locals))
    /\ UNCHANGED path

Sentinel ==
    /\ pc = "walk"
    /\ ~InLoop(iter, chunk_count)
    /\ Becomes(SentinelStep(Locals))
    /\ UNCHANGED path

PostChecks ==
    /\ pc = "post"
    /\ Becomes(PostStep(data, Locals))
    /\ UNCHANGED path

Next == Open \/ Header \/ First \/ WalkChunk \/ Sentinel \/ PostChecks

Spec == Init /\ [][Next]_vars

\* try_from is sequential code that nothing suspends: the step at the position
\* reached is taken
FairSpec == Spec /\ WF_vars(Next)

(***************************************************************************)
(* The file format, read off the bytes: what the properties below compare  *)
(* the loader's outcome with.  Entry k (from 0) of the chunk directory is  *)
(* at byte HEADER_LEN + k * CHUNK_LOOKUP_SIZE; a chunk's size is the next  *)
(* entry's offset minus its own.                                           *)
(***************************************************************************)
Done == pc = "done"
Opened == pc = "done" /\ result.kind = "Ok"

DirId(d, k) == Slice(d, HEADER_LEN + k * CHUNK_LOOKUP_SIZE, HEADER_LEN + k * CHUNK_LOOKUP_SIZE + 4)
DirOffset(d, k) ==
    ReadU64(Slice(d, HEADER_LEN + k * CHUNK_LOOKUP_SIZE + 4, HEADER_LEN + (k + 1) * CHUNK_LOOKUP_SIZE))
DirCount(d) == At(d, 6)
DirSize(d, k) == DirOffset(d, k + 1) - DirOffset(d, k)
\* the directory entries of chunk id
Having(d, id) == {k \in 0 .. DirCount(d) - 1 : DirId(d, k) = id}
\* the number of entries of entry_size bytes in the chunk id, 0 when it is absent
EntriesIn(d, id, entry_size) ==
    IF Having(d, id) = {} THEN 0
    ELSE DirSize(d, CHOOSE k \in Having(d, id) : \A m \in Having(d, id) : k <= m) \div entry_size
\* word b of the fan table stored in the OIDF chunk
FanWord(d, b) ==
    LET o == DirOffset(d, CHOOSE k \in Having(d, OID_FAN_CHUNK_ID) : TRUE)
    IN  ReadU32(Slice(d, o + 4 * b, o + 4 * b + 4))
Recognized ==
    {OID_FAN_CHUNK_ID, OID_LOOKUP_CHUNK_ID, COMMIT_DATA_CHUNK_ID,
     EXTENDED_EDGES_LIST_CHUNK_ID, BASE_GRAPHS_LIST_CHUNK_ID}
\* the required chunks the directory does not list
Absent(d) ==
    {id \in {OID_FAN_CHUNK_ID, OID_LOOKUP_CHUNK_ID, COMMIT_DATA_CHUNK_ID} : Having(d, id) = {}}
      \cup (IF At(d, 7) > 0 /\ Having(d, BASE_GRAPHS_LIST_CHUNK_ID) = {}
            THEN {BASE_GRAPHS_LIST_CHUNK_ID} ELSE {})

(***************************************************************************)
(* C1.  Every File that File::at returns has fan[255] equal to the number  *)
(* of 20-byte entries of its OIDL chunk and to the number of 36-byte       *)
(* entries of its CDAT chunk.  When the required chunks are present and    *)
(* one of the two counts differs from the fan word 255 of the file, the    *)
(* post-parse checks end in CommitCountMismatch naming OIDF with fan[255]  *)
(* and the disagreeing chunk with its count, and no File is returned.      *)
(***************************************************************************)
OidEntries(d) == EntriesIn(d, OID_LOOKUP_CHUNK_ID, OID_LOOKUP_ENTRY_SIZE)
CommitEntries(d) == EntriesIn(d, COMMIT_DATA_CHUNK_ID, COMMIT_DATA_ENTRY_SIZE)

C1_CountsHold ==
    Opened => /\ fan[FAN_LEN] = FanWord(data, FAN_LEN - 1)
              /\ fan[FAN_LEN] = OidEntries(data)
              /\ fan[FAN_LEN] = CommitEntries(data)

C1_MismatchFails ==
    (pc = "post" /\ Absent(data) = {}
       /\ (OidEntries(data) # FanWord(data, FAN_LEN - 1)
             \/ CommitEntries(data) # FanWord(data, FAN_LEN - 1)))
      => /\ pc' = "done"
         /\ result'.kind = "CommitCountMismatch"
         /\ result'.id = OID_FAN_CHUNK_ID
         /\ result'.count = FanWord(data, FAN_LEN - 1)
         /\ \/ /\ result'.id2 = OID_LOOKUP_CHUNK_ID
               /\ result'.count2 = OidEntries(data)
            \/ /\ result'.id2 = COMMIT_DATA_CHUNK_ID
               /\ result'.count2 = CommitEntries(data)
         /\ result'.count2 # result'.count

C1_CommitCounts == [](C1_CountsHold) /\ [][C1_MismatchFails]_vars

\* the OIDL count agrees with fan[255], the CDAT count does not
C1_Witness ==
    /\ Done
    /\ result = CommitCountMismatch(OID_FAN_CHUNK_ID, MaxCommits,
                                    COMMIT_DATA_CHUNK_ID, MaxCommits + 1)

(***************************************************************************)
(* C2.  When the header, the directory walk and the sentinel have all      *)
(* passed and the directory lacks a required chunk (OIDF, OIDL, CDAT, or   *)
(* BASE while base_graph_count > 0), the post-parse checks end in          *)
(* MissingChunk naming an absent chunk, whatever the commit counts are; a  *)
(* file listing only OIDF and OIDL gets MissingChunk{CDAT}.                *)
(***************************************************************************)
DirIds(d) == {DirId(d, k) : k \in 0 .. DirCount(d) - 1}

C2_Missing ==
    (pc = "post" /\ Absent(data) # {})
      => /\ pc' = "done"
         /\ result'.kind = "MissingChunk"
         /\ result'.id \in Absent(data)
         /\ (DirIds(data) = {OID_FAN_CHUNK_ID, OID_LOOKUP_CHUNK_ID}
               => result' = MissingChunk(COMMIT_DATA_CHUNK_ID))

C2_MissingChunk == [][C2_Missing]_vars

\* only OIDF and OIDL, and the OIDL count agrees with fan[255] > 0 while there is
\* no commit data: the count comparison, had it run, would have failed
C2_Witness ==
    /\ Done
    /\ result = MissingChunk(COMMIT_DATA_CHUNK_ID)
    /\ DirIds(data) = {OID_FAN_CHUNK_ID, OID_LOOKUP_CHUNK_ID}
    /\ FanWord(data, FAN_LEN - 1) = MaxCommits
    /\ OidEntries(data) = MaxCommits

(***************************************************************************)
(* C3.  No File is returned for a directory that lists a recognized chunk  *)
(* id more than once; the walk, on reaching a later entry of an id already *)
(* listed (the entry's offsets being monotonic and inside the file), ends  *)
(* in DuplicateChunk naming that id.                                       *)
(***************************************************************************)
\* entry k's chunk neither has a negative size nor reaches the end of the file
WellPlaced(d, k) == DirOffset(d, k) <= DirOffset(d, k + 1) /\ DirOffset(d, k + 1) < Len(d)
\* entry k repeats the id of an earlier entry
Repeats(d, k) == \E m \in 0 .. k - 1 : DirId(d, m) = DirId(d, k)

C3_NeverOpened ==
    Opened => \A id \in Recognized : Cardinality(Having(data, id)) <= 1

C3_Duplicate ==
    (pc = "walk" /\ iter < chunk_count /\ DirId(data, iter) \in Recognized
       /\ Repeats(data, iter) /\ WellPlaced(data, iter))
      => /\ pc' = "done"
         /\ result' = DuplicateChunk(DirId(data, iter))

C3_DuplicateChunk == [](C3_NeverOpened) /\ [][C3_Duplicate]_vars

\* two CDAT entries
C3_Witness ==
    /\ Done
    /\ result = DuplicateChunk(COMMIT_DATA_CHUNK_ID)
    /\ Cardinality(Having(data, COMMIT_DATA_CHUNK_ID)) = 2

(***************************************************************************)
(* C4.  For every directory entry i < chunk_count the walk reaches:        *)
(* InvalidChunkSize naming chunk i when the next entry's offset is smaller *)
(* than entry i's or greater than the file size; and a chunk whose end     *)
(* offset is at most the file size is not rejected as out of bounds.       *)
(***************************************************************************)
C4_Bounds ==
    (pc = "walk" /\ iter < chunk_count)
      => /\ (DirOffset(data, iter + 1) < DirOffset(data, iter)
               \/ DirOffset(data, iter + 1) > Len(data))
              => /\ pc' = "done"
                 /\ result'.kind = "InvalidChunkSize"
                 /\ result'.id = DirId(data, iter)
         /\ (DirOffset(data, iter) <= DirOffset(data, iter + 1)
               /\ DirOffset(data, iter + 1) <= Len(data))
              => result' # InvalidChunkSize(DirId(data, iter), "chunk extends beyond end of file")

C4_InvalidChunkSize == [][C4_Bounds]_vars

(***************************************************************************)
(* C5.  The walk, on reaching the first entry of a recognized id (its      *)
(* offsets monotonic and inside the file), ends in InvalidChunkSize naming *)
(* the chunk when an OIDF chunk is not exactly 1024 bytes, an OIDL chunk   *)
(* no multiple of 20, a CDAT chunk no multiple of 36 or a BASE chunk no    *)
(* multiple of 20; an EDGE chunk is accepted whatever its size, and its    *)
(* range recorded.                                                         *)
(***************************************************************************)
ViolatesSize(id, size) ==
    \/ id = OID_FAN_CHUNK_ID /\ size # 1024
    \/ id = OID_LOOKUP_CHUNK_ID /\ size % 20 # 0
    \/ id = COMMIT_DATA_CHUNK_ID /\ size % 36 # 0
    \/ id = BASE_GRAPHS_LIST_CHUNK_ID /\ size % 20 # 0

C5_Sizes ==
    (pc = "walk" /\ iter < chunk_count /\ ~Repeats(data, iter) /\ WellPlaced(data, iter))
      => /\ ViolatesSize(DirId(data, iter), DirSize(data, iter))
              => /\ pc' = "done"
                 /\ result'.kind = "InvalidChunkSize"
                 /\ result'.id = DirId(data, iter)
         /\ DirId(data, iter) = EXTENDED_EDGES_LIST_CHUNK_ID
              => /\ pc' = "walk"
                 /\ result' = Pending
                 /\ extra_edges_list_range' =
                      Some([start |-> DirOffset(data, iter), end |-> DirOffset(data, iter + 1)])

C5_ChunkSizes == [][C5_Sizes]_vars

\* a File whose EDGE chunk has a size that is no multiple of 4
C5_Witness ==
    /\ Opened
    /\ IsSome(extra_edges_list_range)
    /\ (extra_edges_list_range[1].end - extra_edges_list_range[1].start) % 4 = 1

(***************************************************************************)
(* C6.  A walk step whose entry has none of the five recognized ids leaves *)
(* every recorded field unchanged; and a file that is opened without its   *)
(* chunks of unrecognized ids is opened with them too, with the same       *)
(* counts and fan table.                                                   *)
(***************************************************************************)
HasUnknown(f) == \E k \in 1 .. Len(f.ids) : f.ids[k] \notin Recognized

C6_Frame ==
    (pc = "walk" /\ iter < chunk_count /\ DirId(data, iter) \notin Recognized)
      => UNCHANGED <<fan_offset, oid_lookup_offset, oid_lookup_count, commit_data_offset,
                     commit_data_count, extra_edges_list_range, base_graphs_list_offset>>

C6_StillOpened ==
    (Done /\ HasUnknown(input) /\ at(FileBytes(StripUnknown(input))).result.kind = "Ok")
      => LET without == at(FileBytes(StripUnknown(input)))
         IN  /\ result.kind = "Ok"
             /\ oid_lookup_count = without.oid_lookup_count
             /\ commit_data_count = without.commit_data_count
             /\ fan = without.fan
             /\ IsSome(extra_edges_list_range) = IsSome(without.extra_edges_list_range)
             /\ IsSome(base_graphs_list_offset) = IsSome(without.base_graphs_list_offset)

C6_UnknownSkipped == [](C6_StillOpened) /\ [][C6_Frame]_vars

\* a file of MaxCommits commits opened with a chunk of an unrecognized id in it
C6_Witness ==
    /\ Opened
    /\ HasUnknown(input)
    /\ UNKNOWN_CHUNK_ID \in DirIds(data)
    /\ fan[FAN_LEN] = MaxCommits

(***************************************************************************)
(* C7.  Every File that File::at returns has as many 20-byte hashes in its *)
(* BASE chunk (none when the chunk is absent) as the header's              *)
(* base_graph_count says; the walk, on reaching the first BASE entry       *)
(* (offsets monotonic and inside the file, size a multiple of 20) with     *)
(* another number of hashes, ends in BaseGraphMismatch carrying the header *)
(* count and the chunk's count.                                            *)
(***************************************************************************)
BaseEntries(d) == EntriesIn(d, BASE_GRAPHS_LIST_CHUNK_ID, SHA1_SIZE)

C7_CountHolds ==
    Opened => /\ BaseEntries(data) = At(data, 7)
              /\ base_graph_count = At(data, 7)
              /\ IsSome(base_graphs_list_offset) = (Having(data, BASE_GRAPHS_LIST_CHUNK_ID) # {})

C7_Mismatch ==
    (pc = "walk" /\ iter < chunk_count /\ DirId(data, iter) = BASE_GRAPHS_LIST_CHUNK_ID
       /\ ~Repeats(data, iter) /\ WellPlaced(data, iter)
       /\ DirSize(data, iter) % 20 = 0 /\ DirSize(data, iter) \div 20 # At(data, 7))
      => /\ pc' = "done"
         /\ result' = BaseGraphMismatch(At(data, 7), DirSize(data, iter) \div 20)

C7_BaseGraphCount == [](C7_CountHolds) /\ [][C7_Mismatch]_vars

\* the header says MaxBase base graphs, the BASE chunk holds one more
C7_Witness ==
    /\ Done
    /\ result = BaseGraphMismatch(MaxBase, MaxBase + 1)

(***************************************************************************)
(* C8.  File::at returns a File only if bytes 0..4 are CGPH, byte 4 is 1   *)
(* and byte 5 is 1; a file not starting with the signature fails with      *)
(* Corrupt, a file with the signature and format version v # 1 with        *)
(* UnsupportedVersion(v), a file with the signature, format version 1 and  *)
(* hash version h # 1 with UnsupportedHashVersion(h).                      *)
(* C8_AnyLength states it for every file content and length;               *)
(* C8_HeaderChecks for the files of at least 56 bytes (MIN_FILE_SIZE), the *)
(* shorter ones failing with Corrupt whatever their header.                *)
(***************************************************************************)
HasSignature(d) == Len(d) >= 4 /\ Slice(d, 0, 4) = <<67, 71, 80, 72>>

\* (a file cut before its version bytes has no version to report)
HeaderOutcome(d) ==
    /\ result.kind = "Ok" => HasSignature(d) /\ Len(d) > 5 /\ At(d, 4) = 1 /\ At(d, 5) = 1
    /\ ~HasSignature(d) => result.kind = "Corrupt"
    /\ (HasSignature(d) /\ Len(d) > 4 /\ At(d, 4) # 1) => result = UnsupportedVersion(At(d, 4))
    /\ (HasSignature(d) /\ Len(d) > 5 /\ At(d, 4) = 1 /\ At(d, 5) # 1)
         => result = UnsupportedHashVersion(At(d, 5))

C8_AnyLength == (Done /\ readable) => HeaderOutcome(data)

C8_HeaderChecks ==
    (Done /\ readable)
      => /\ Len(data) >= 56 => HeaderOutcome(data)
         /\ Len(data) < 56 => result.kind = "Corrupt"

\* a file long enough, with the signature and format version 2
C8_Witness ==
    /\ Done
    /\ HasSignature(data)
    /\ result = UnsupportedVersion(2)

(***************************************************************************)
(* C9.  The fan table of every File that File::at returns is               *)
(* non-decreasing: fan[0] <= fan[1] <= ... <= fan[255].                    *)
(***************************************************************************)
C9_FanMonotonic == Opened => \A b \in 1 .. FAN_LEN - 1 : fan[b] <= fan[b + 1]

(***************************************************************************)
(* The queries of an opened File, and the Graph of an info directory that  *)
(* holds the single file `commit-graph` and no chain: Graph::from_info_dir *)
(* opens that file with File::at, and global positions are the file's      *)
(* local ones.  A parent edge is <<"None">>, <<"InGraph", position>> or    *)
(* <<"ExtraEdgeIndex", index>>.                                            *)
(***************************************************************************)
\* len(): fan[255]
len == fan[FAN_LEN]
\* commit_at(pos): the 36-byte CDAT record of the commit at pos
commit_at(pos) ==
    Slice(data, commit_data_offset[1] + pos * COMMIT_DATA_ENTRY_SIZE,
          commit_data_offset[1] + (pos + 1) * COMMIT_DATA_ENTRY_SIZE)
\* generation(): the high 30 bits of the trailing 64-bit field, that is the
\* high 32 bits shifted right by 2
generation(c) == ReadU32(Slice(c, 28, 32)) \div 4
\* the edge word w (4 bytes): 0x7000_0000 is no parent, the top bit tags an
\* index into the extra-edges list
ParentEdge(w) ==
    IF w = <<112, 0, 0, 0>> THEN <<"None">>
    ELSE IF w[1] >= 128 THEN <<"ExtraEdgeIndex", ReadU32(<<w[1] - 128, w[2], w[3], w[4]>>)>>
    ELSE <<"InGraph", ReadU32(w)>>
parent1(c) == ParentEdge(Slice(c, 20, 24))
parent2(c) == ParentEdge(Slice(c, 24, 28))
\* extra_edges(index): the positions of the words of EDGE from word index on, up to
\* and including the first word with the top bit set, cut at the chunk's end
RECURSIVE extra_edges(_)
extra_edges(index) ==
    LET r == extra_edges_list_range[1]
        o == r.start + 4 * index
    IN  IF extra_edges_list_range = None \/ o + 4 > r.end THEN <<>>
        ELSE LET w == Slice(data, o, o + 4)
             IN  IF w[1] >= 128 THEN <<ReadU32(<<w[1] - 128, w[2], w[3], w[4]>>)>>
                 ELSE <<ReadU32(w)>> \o extra_edges(index + 1)
\* iter_parents(): the positions of the parents, in order
iter_parents(c) ==
    IF parent1(c)[1] # "InGraph" THEN <<>>
    ELSE CASE parent2(c)[1] = "None" -> <<parent1(c)[2]>>
           [] parent2(c)[1] = "InGraph" -> <<parent1(c)[2], parent2(c)[2]>>
           [] OTHER -> <<parent1(c)[2]>> \o extra_edges(parent2(c)[2])

(***************************************************************************)
(* C10.  In every graph built from an opened file, a commit without        *)
(* parents has generation 1, and a commit with parents has a generation    *)
(* one greater than the greatest generation of its parents.                *)
(***************************************************************************)
MaxOf(S) == CHOOSE x \in S : \A y \in S : y <= x

C10_Generations ==
    Opened =>
      \A pos \in 0 .. len - 1 :
        LET c == commit_at(pos)
            ps == iter_parents(c)
        IN  generation(c) =
              IF ps = <<>> THEN 1
              ELSE 1 + MaxOf({generation(commit_at(ps[k])) : k \in 1 .. Len(ps)})

\* the graph of two_parents.sh: two roots of generation 1, their child of generation 2
C10_TwoParents ==
    /\ Opened
    /\ len = 3
    /\ iter_parents(commit_at(0)) = <<>> /\ generation(commit_at(0)) = 1
    /\ iter_parents(commit_at(1)) = <<>> /\ generation(commit_at(1)) = 1
    /\ iter_parents(commit_at(2)) = <<0, 1>> /\ generation(commit_at(2)) = 2

(***************************************************************************)
(* C11.  The chunk directory is walked in one pass that ends: every run of *)
(* File::at returns, and the loop runs at most chunk_count times, exactly  *)
(* chunk_count times when no iteration returns an error.  Iteration i      *)
(* (from 0) dispatches on the id of directory entry i with the size        *)
(* offset[i+1] - offset[i] and then moves to entry i + 1, so the entries   *)
(* 0 .. chunk_count - 1 are dispatched once each in directory order.       *)
(* Entry chunk_count is not dispatched: the step after the loop records    *)
(* nothing, compares that entry's id with the zero sentinel id and ends in *)
(* Corrupt when they differ.                                               *)
(***************************************************************************)
\* what the walk has recorded of the chunks dispatched so far
Recorded ==
    <<fan_offset, oid_lookup_offset, oid_lookup_count, commit_data_offset, commit_data_count,
      extra_edges_list_range, base_graphs_list_offset>>

\* in the loop and after it the locals hold directory entry iter, the next
\* read is at entry iter + 1, and iter has not passed chunk_count
C11_InOrder ==
    /\ pc = "walk"
         => /\ iter <= chunk_count
            /\ chunk_count = DirCount(data)
            /\ ofs = HEADER_LEN + (iter + 1) * CHUNK_LOOKUP_SIZE
            /\ chunk_id = DirId(data, iter)
            /\ chunk_offset = DirOffset(data, iter)
    /\ pc = "post" => iter = chunk_count /\ chunk_count = DirCount(data)

\* one iteration: entry iter is dispatched with its size, then entry iter + 1 is current
C11_DispatchOnce ==
    (pc = "walk" /\ iter < chunk_count)
      => LET id == DirId(data, iter)
             next == DirOffset(data, iter + 1)
             size == DirSize(data, iter)
             u == Dispatch([Locals EXCEPT !.ofs = ofs + CHUNK_LOOKUP_SIZE, !.chunk_id = id,
                                          !.chunk_offset = DirOffset(data, iter)],
                           size, next)
         IN  IF size < 0 \/ next >= Len(data)
             THEN /\ pc' = "done"
                  /\ result'.kind = "InvalidChunkSize" /\ result'.id = id
                  /\ UNCHANGED <<Recorded, iter>>
             ELSE IF u.pc = "done"
             THEN /\ pc' = "done"
                  /\ result' = u.result
                  /\ UNCHANGED <<Recorded, iter>>
             ELSE /\ pc' = "walk"
                  /\ iter' = iter + 1
                  /\ chunk_id' = DirId(data, iter + 1)
                  /\ chunk_offset' = next
                  /\ Recorded' = <<u.fan_offset, u.oid_lookup_offset, u.oid_lookup_count,
                                   u.commit_data_offset, u.commit_data_count,
                                   u.extra_edges_list_range, u.base_graphs_list_offset>>

\* after the loop: the last entry is compared with the sentinel and nothing is recorded
C11_SentinelOnly ==
    (pc = "walk" /\ ~(iter < chunk_count))
      => /\ iter = chunk_count
         /\ UNCHANGED <<Recorded, iter, ofs, chunk_id, chunk_offset>>
         /\ IF DirId(data, DirCount(data)) # <<0, 0, 0, 0>>
            THEN pc' = "done" /\ result'.kind = "Corrupt"
            ELSE pc' = "post" /\ result' = Pending

C11_Returns == <>Done

C11_SinglePass ==
    /\ [](C11_InOrder)
    /\ [][C11_DispatchOnce]_vars
    /\ [][C11_SentinelOnly]_vars
    /\ C11_Returns

\* all five recognized chunks dispatched, then a last entry whose id is not zero
C11_Witness ==
    /\ Done
    /\ result = Corrupt("Commit-graph file has invalid last chunk ID")
    /\ chunk_count = Len(Full)
    /\ iter = chunk_count
    /\ IsSome(fan_offset) /\ IsSome(oid_lookup_offset) /\ IsSome(commit_data_offset)
    /\ IsSome(extra_edges_list_range) /\ IsSome(base_graphs_list_offset)

(***************************************************************************)
(* C12.  Whatever the bytes and the length of the file, File::at reads no  *)
(* byte outside the buffer, so it returns a File or an Error and never     *)
(* panics on an index out of range: the header is read only from a file of *)
(* at least MIN_FILE_SIZE bytes, each of the chunk_count + 1 directory     *)
(* entries is read below chunk_lookup_end, which is at most the file size, *)
(* and the 256 words read_fan reads from the recorded OIDF offset lie at   *)
(* or after chunk_lookup_end and end at or before the end of the file.     *)
(***************************************************************************)
C12_NoPanic == result.kind # "Panic"

\* the read the next step makes, and the fan table a returned File holds
C12_ReadsInside ==
    /\ pc = "header" => HEADER_LEN <= MIN_FILE_SIZE /\ MIN_FILE_SIZE <= Len(data)
    /\ pc = "first"
         => /\ ofs = HEADER_LEN
            /\ ofs + CHUNK_LOOKUP_SIZE <= chunk_lookup_end
            /\ chunk_lookup_end <= Len(data)
    /\ pc = "walk"
         => /\ chunk_lookup_end = HEADER_LEN + (DirCount(data) + 1) * CHUNK_LOOKUP_SIZE
            /\ chunk_lookup_end <= Len(data)
            /\ IF iter < chunk_count
               THEN ofs + CHUNK_LOOKUP_SIZE <= chunk_lookup_end
               ELSE ofs = chunk_lookup_end
    /\ IsSome(fan_offset)
         => /\ chunk_lookup_end <= fan_offset[1]
            /\ fan_offset[1] + 4 * FAN_LEN <= Len(data)
    /\ Opened
         => \A b \in 0 .. FAN_LEN - 1 :
              fan[b + 1] = ReadU32(Slice(data, fan_offset[1] + 4 * b, fan_offset[1] + 4 * b + 4))

C12_ReadsInBuffer == C12_NoPanic /\ C12_ReadsInside

\* a file opened whose fan table is its last chunk
C12_Witness ==
    /\ Opened
    /\ DirId(data, chunk_count - 1) = OID_FAN_CHUNK_ID
    /\ fan_offset[1] + 4 * FAN_LEN = DirOffset(data, chunk_count)
    /\ fan[FAN_LEN] = MaxCommits
=============================================================================
